---- MODULE Spec2Model ----
(***************************************************************************)
(* A model of GitPython's diff header parser (lib/git/diff.py:             *)
(* Diff.list_from_string and the diff_header pattern) and of the test      *)
(* decorators with_rw_directory and with_rw_and_rw_remote_repo of          *)
(* git/test/lib/helper.py.                                                 *)
(*                                                                         *)
(* Texts are TLA+ strings, read character by character; positions are      *)
(* 1-based and a position p names the next character to consume, so the    *)
(* Python offset header.end() is p - 1.                                    *)
(***************************************************************************)
EXTENDS Integers, Sequences, FiniteSets, TLC

VARIABLES text, segs, diffs, pc, result, err,
          hpc, fs, nruns, path, keep, outcome, pending, finished,
          repo_dir, remote_repo_dir, gd, daemon, cwd, launch_raised,
          func_called, cleanup_done

dvars == <<text, segs, diffs, pc, result, err>>
hvars == <<hpc, fs, nruns, path, keep, outcome, pending, finished,
           repo_dir, remote_repo_dir, gd, daemon, cwd, launch_raised,
           func_called, cleanup_done>>
vars == <<dvars, hvars>>

(***************************************************************************)
(* Bounds of the model.                                                    *)
(***************************************************************************)
\* The number of pieces (header clauses, hunk lines) an input text is made of.
MaxPieces == 3
\* The number of decorated tests the test runner runs one after the other.
MaxRuns == 3

(***************************************************************************)
(* Python values: None is the empty tuple, a captured string s is <<s>>.   *)
(***************************************************************************)
None == <<>>
Some(s) == <<s>>

\* bool(x) of a captured group: None and the empty string are false.
Truthy(x) == x # None /\ x[1] # ""

\* Python's `a or b`.
Or(a, b) == IF Truthy(a) THEN a ELSE b

(***************************************************************************)
(* Characters and the character classes of the pattern.                    *)
(***************************************************************************)
At(s, p) == SubSeq(s, p, p)

\* The least element of a non-empty set of positions.
Least(S) == CHOOSE x \in S : \A y \in S : x <= y

Digits == {"0", "1", "2", "3", "4", "5", "6", "7", "8", "9"}
HexDigits == Digits \cup {"a", "b", "c", "d", "e", "f", "A", "B", "C", "D", "E", "F"}
Whitespace == {" ", "\t", "\n", "\r", "\f"}

\* kind "S" is \S, "d" is \d, "x" is [0-9A-Fa-f], "." is . (no re.DOTALL).
InClass(c, kind) ==
  CASE kind = "S" -> c \notin Whitespace
    [] kind = "d" -> c \in Digits
    [] kind = "x" -> c \in HexDigits
    [] kind = "." -> c # "\n"

\* A greedy run X+ from position p: the position after its last character
\* (p itself when no character of the class stands at p).
Span(s, p, kind) ==
  IF p > Len(s) THEN p
  ELSE Least({q \in p..(Len(s) + 1) : q = Len(s) + 1 \/ ~InClass(At(s, q), kind)})

\* The literal lit stands at position p of s.
Lit(s, p, lit) ==
  /\ p + Len(lit) - 1 <= Len(s)
  /\ SubSeq(s, p, p + Len(lit) - 1) = lit

\* ^ under re.MULTILINE: the start of the string or just after a newline.
Caret(s, p) == p = 1 \/ At(s, p - 1) = "\n"

\* (?:\n|$) under re.MULTILINE at position p: the position after it, 0 when
\* it does not match. \n is tried first; $ then only holds at the end.
EolEnd(s, p) ==
  IF p <= Len(s) /\ At(s, p) = "\n" THEN p + 1
  ELSE IF p = Len(s) + 1 THEN p
  ELSE 0

(***************************************************************************)
(* The clauses of diff_header. Each gives [ok, nxt, groups...]: whether    *)
(* the clause matches at p and the position after it.                      *)
(***************************************************************************)
\* [ ]a/(?P<a_path>\S+)[ ]b/(?P<b_path>\S+)\n      (the match starts at 1)
PathClause(s) ==
  LET a0 == 4
      a1 == Span(s, a0, "S")
      b0 == a1 + 3
      b1 == Span(s, b0, "S")
      ok == /\ Lit(s, 1, " a/")
            /\ a1 > a0
            /\ Lit(s, a1, " b/")
            /\ b1 > b0
            /\ Lit(s, b1, "\n")
  IN  IF ok
      THEN [ok |-> TRUE, nxt |-> b1 + 1,
            a_path |-> Some(SubSeq(s, a0, a1 - 1)),
            b_path |-> Some(SubSeq(s, b0, b1 - 1))]
      ELSE [ok |-> FALSE, nxt |-> 1, a_path |-> None, b_path |-> None]

\* (?:^similarity[ ]index[ ](?P<similarity_index>\d+)%\n
\*    ^rename[ ]from[ ](?P<rename_from>\S+)\n
\*    ^rename[ ]to[ ](?P<rename_to>\S+)(?:\n|$))?
RenameClause(s, p) ==
  LET i0 == p + 17
      i1 == Span(s, i0, "d")
      f  == i1 + 2
      f0 == f + 12
      f1 == Span(s, f0, "S")
      t  == f1 + 1
      t0 == t + 10
      t1 == Span(s, t0, "S")
      e  == EolEnd(s, t1)
      ok == /\ Caret(s, p)
            /\ Lit(s, p, "similarity index ")
            /\ i1 > i0
            /\ Lit(s, i1, "%\n")
            /\ Lit(s, f, "rename from ")
            /\ f1 > f0
            /\ Lit(s, f1, "\n")
            /\ Lit(s, t, "rename to ")
            /\ t1 > t0
            /\ e # 0
  IN  IF ok
      THEN [ok |-> TRUE, nxt |-> e,
            similarity_index |-> Some(SubSeq(s, i0, i1 - 1)),
            rename_from |-> Some(SubSeq(s, f0, f1 - 1)),
            rename_to |-> Some(SubSeq(s, t0, t1 - 1))]
      ELSE [ok |-> FALSE, nxt |-> p, similarity_index |-> None,
            rename_from |-> None, rename_to |-> None]

\* (?:^old[ ]mode[ ](?P<old_mode>\d+)\n
\*    ^new[ ]mode[ ](?P<new_mode>\d+)(?:\n|$))?
ModeClause(s, p) ==
  LET o0 == p + 9
      o1 == Span(s, o0, "d")
      n  == o1 + 1
      n0 == n + 9
      n1 == Span(s, n0, "d")
      e  == EolEnd(s, n1)
      ok == /\ Caret(s, p)
            /\ Lit(s, p, "old mode ")
            /\ o1 > o0
            /\ Lit(s, o1, "\n")
            /\ Lit(s, n, "new mode ")
            /\ n1 > n0
            /\ e # 0
  IN  IF ok
      THEN [ok |-> TRUE, nxt |-> e,
            old_mode |-> Some(SubSeq(s, o0, o1 - 1)),
            new_mode |-> Some(SubSeq(s, n0, n1 - 1))]
      ELSE [ok |-> FALSE, nxt |-> p, old_mode |-> None, new_mode |-> None]

\* (?:^new[ ]file[ ]mode[ ](?P<new_file_mode>.+)(?:\n|$))?   with
\* keyword "new file mode ", and the deleted-file clause with
\* "deleted file mode ": one captured value to the end of the line.
LineClause(s, p, keyword) ==
  LET v0 == p + Len(keyword)
      v1 == Span(s, v0, ".")
      e  == EolEnd(s, v1)
      ok == /\ Caret(s, p)
            /\ Lit(s, p, keyword)
            /\ v1 > v0
            /\ e # 0
  IN  IF ok
      THEN [ok |-> TRUE, nxt |-> e, value |-> Some(SubSeq(s, v0, v1 - 1))]
      ELSE [ok |-> FALSE, nxt |-> p, value |-> None]

\* (?:^index[ ](?P<a_commit>[0-9A-Fa-f]+)
\*     \.\.(?P<b_commit>[0-9A-Fa-f]+)[ ]?(?P<b_mode>.+)?(?:\n|$))?
IndexClause(s, p) ==
  LET a0 == p + 6
      a1 == Span(s, a0, "x")
      b0 == a1 + 2
      b1 == Span(s, b0, "x")
      m0 == IF b1 <= Len(s) /\ At(s, b1) = " " THEN b1 + 1 ELSE b1
      m1 == Span(s, m0, ".")
      e  == EolEnd(s, m1)
      ok == /\ Caret(s, p)
            /\ Lit(s, p, "index ")
            /\ a1 > a0
            /\ Lit(s, a1, "..")
            /\ b1 > b0
            /\ e # 0
  IN  IF ok
      THEN [ok |-> TRUE, nxt |-> e,
            a_commit |-> Some(SubSeq(s, a0, a1 - 1)),
            b_commit |-> Some(SubSeq(s, b0, b1 - 1)),
            b_mode |-> IF m1 > m0 THEN Some(SubSeq(s, m0, m1 - 1)) ELSE None]
      ELSE [ok |-> FALSE, nxt |-> p, a_commit |-> None, b_commit |-> None,
            b_mode |-> None]

\* diff_header with the index clause made mandatory (its `?` left out).
diff_header_IndexRequired(s) ==
  LET pa == PathClause(s)
      rn == RenameClause(s, pa.nxt)
      md == ModeClause(s, rn.nxt)
      nf == LineClause(s, md.nxt, "new file mode ")
      df == LineClause(s, nf.nxt, "deleted file mode ")
      ix == IndexClause(s, df.nxt)
  IN  [matched |-> pa.ok /\ ix.ok,
       end |-> ix.nxt - 1,
       a_path |-> pa.a_path, b_path |-> pa.b_path,
       similarity_index |-> rn.similarity_index,
       rename_from |-> rn.rename_from, rename_to |-> rn.rename_to,
       old_mode |-> md.old_mode, new_mode |-> md.new_mode,
       new_file_mode |-> nf.value, deleted_file_mode |-> df.value,
       a_commit |-> ix.a_commit, b_commit |-> ix.b_commit,
       b_mode |-> ix.b_mode]

(***************************************************************************)
(* diff_header(diff): the compiled pattern's match at the start of a       *)
(* segment. Once the mandatory path clause has matched every later clause  *)
(* is optional, so the first alternative the matcher tries for each one    *)
(* (take the clause when it matches where the previous one ended) is the   *)
(* match it reports. matched = FALSE is Python's None.                     *)
(***************************************************************************)
diff_header(s) ==
  LET pa == PathClause(s)
      rn == RenameClause(s, pa.nxt)
      md == ModeClause(s, rn.nxt)
      nf == LineClause(s, md.nxt, "new file mode ")
      df == LineClause(s, nf.nxt, "deleted file mode ")
      ix == IndexClause(s, df.nxt)
  IN  [matched |-> pa.ok,
       end |-> ix.nxt - 1,
       a_path |-> pa.a_path, b_path |-> pa.b_path,
       similarity_index |-> rn.similarity_index,
       rename_from |-> rn.rename_from, rename_to |-> rn.rename_to,
       old_mode |-> md.old_mode, new_mode |-> md.new_mode,
       new_file_mode |-> nf.value, deleted_file_mode |-> df.value,
       a_commit |-> ix.a_commit, b_commit |-> ix.b_commit,
       b_mode |-> ix.b_mode]

(***************************************************************************)
(* str.split and slicing.                                                  *)
(***************************************************************************)
\* The first position >= p where lit occurs in s, 0 when there is none.
Find(s, lit, p) ==
  LET found == {q \in p..Len(s) : Lit(s, q, lit)}
  IN  IF found = {} THEN 0 ELSE Least(found)

\* s.split(sep): the pieces between the occurrences of sep, left to right.
RECURSIVE Split(_, _)
Split(s, sep) ==
  LET i == Find(s, sep, 1)
  IN  IF i = 0 THEN <<s>>
      ELSE <<SubSeq(s, 1, i - 1)>> \o Split(SubSeq(s, i + Len(sep), Len(s)), sep)

\* SliceFrom with the header's last character dropped from the count.
SliceFrom_OffByOne(s, n) == SubSeq(s, n + 2, Len(s))

\* s[n:]
SliceFrom(s, n) == SubSeq(s, n + 1, Len(s))

\* The delimiter token of list_from_string.
Delimiter == "\ndiff --git"

\* Segments without the sentinel newline: text.split('\ndiff --git')[1:]
Segments_NoSentinel(t) == Tail(Split(t, Delimiter))

\* Segments by a single cut at the first delimiter, as str.partition does.
Segments_Partition(t) ==
  LET i == Find("\n" \o t, Delimiter, 1)
  IN  IF i = 0 THEN <<>>
      ELSE <<SubSeq("\n" \o t, i + Len(Delimiter), Len(t) + 1)>>

\* ('\n' + text).split('\ndiff --git')[1:]
Segments(t) == Tail(Split("\n" \o t, Delimiter))

(***************************************************************************)
(* Diff.__init__                                                           *)
(***************************************************************************)
\* Diff with renamed set whenever a rename source was captured.
Diff_RenamedIfPresent(a_path, b_path, a_commit, b_commit, a_mode, b_mode, new_file, deleted_file, rename_from, rename_to, diff) ==
  [a_path |-> a_path, b_path |-> b_path,
   a_commit |-> a_commit, b_commit |-> b_commit,
   a_mode |-> a_mode, b_mode |-> b_mode,
   new_file |-> new_file, deleted_file |-> deleted_file,
   rename_from |-> rename_from,
   rename_to |-> rename_to,
   renamed |-> rename_from # None,
   diff |-> diff]

Diff(a_path, b_path, a_commit, b_commit, a_mode, b_mode, new_file, deleted_file, rename_from, rename_to, diff) ==
  [a_path |-> a_path, b_path |-> b_path,
   a_commit |-> a_commit, b_commit |-> b_commit,
   a_mode |-> a_mode, b_mode |-> b_mode,
   new_file |-> new_file, deleted_file |-> deleted_file,
   rename_from |-> rename_from,
   rename_to |-> rename_to,
   renamed |-> rename_from # rename_to,
   diff |-> diff]

\* MakeDiff with deleted_file taken from the new-file clause.
MakeDiff_CopyPasteFlag(seg, header) ==
  LET new_file == Truthy(header.new_file_mode)
      deleted_file == Truthy(header.new_file_mode)
  IN  Diff(header.a_path, header.b_path, header.a_commit, header.b_commit,
           Or(header.old_mode, header.deleted_file_mode),
           Or(header.new_mode, Or(header.new_file_mode, header.b_mode)),
           new_file, deleted_file, header.rename_from, header.rename_to,
           SliceFrom(seg, header.end))

\* MakeDiff with the index line's mode taking precedence.
MakeDiff_IndexModeFirst(seg, header) ==
  LET new_file == Truthy(header.new_file_mode)
      deleted_file == Truthy(header.deleted_file_mode)
  IN  Diff(header.a_path, header.b_path, header.a_commit, header.b_commit,
           Or(header.old_mode, header.deleted_file_mode),
           Or(header.b_mode, Or(header.new_file_mode, header.new_mode)),
           new_file, deleted_file, header.rename_from, header.rename_to,
           SliceFrom(seg, header.end))

\* The body of the loop of list_from_string for a matched header.
MakeDiff(seg, header) ==
  LET new_file == Truthy(header.new_file_mode)
      deleted_file == Truthy(header.deleted_file_mode)
  IN  Diff(header.a_path, header.b_path, header.a_commit, header.b_commit,
           Or(header.old_mode, header.deleted_file_mode),
           Or(header.new_mode, Or(header.new_file_mode, header.b_mode)),
           new_file, deleted_file, header.rename_from, header.rename_to,
           SliceFrom(seg, header.end))

(***************************************************************************)
(* The input texts: up to MaxPieces pieces of diff output, each a header   *)
(* clause as git prints it, a malformed variant of one, or a hunk line.    *)
(***************************************************************************)
Pieces ==
  { "diff --git a/x b/x\n",
    "diff --git a/x y b/x\n",
    "similarity index 90%\nrename from x\nrename to y\n",
    "similarity index 100%\nrename from x\nrename to x",
    "similarity index 90%\nrename from x\n",
    "old mode 100644\nnew mode 100755\n",
    "new file mode 100644\n",
    "deleted file mode 100600\n",
    "index a1b2c3..d4e5f6 100644\n",
    "index 0000000..e69de29\n",
    "new  file mode 100644\n",
    "+ diff --git a/x b/x\n",
    "@@ -1 +1 @@\n" }

RECURSIVE Texts(_)
Texts(n) ==
  IF n = 0 THEN {""}
  ELSE LET shorter == Texts(n - 1)
       IN  shorter \cup {t \o p : t \in shorter, p \in Pieces}

(***************************************************************************)
(* Diff.list_from_string(repo, text) as a state machine.                   *)
(***************************************************************************)
\* A call of list_from_string on one of the input texts; no decorated test
\* runs meanwhile.
DiffInit ==
  /\ text \in Texts(MaxPieces)
  /\ segs = <<>>
  /\ diffs = <<>>
  /\ pc = "start"
  /\ result = None
  /\ err = "none"
  /\ hpc = "idle"
  /\ fs = {}
  /\ nruns = 0
  /\ path = 0
  /\ keep = FALSE
  /\ outcome = "none"
  /\ pending = "none"
  /\ finished = "none"
  /\ repo_dir = 0
  /\ remote_repo_dir = 0
  /\ gd = "unbound"
  /\ daemon = "none"
  /\ cwd = "prev_cwd"
  /\ launch_raised = FALSE
  /\ func_called = FALSE
  /\ cleanup_done = FALSE

\* The split of the text into segments, before the loop.
SplitText ==
  /\ pc = "start"
  /\ segs' = Segments(text)
  /\ diffs' = <<>>
  /\ pc' = "loop"
  /\ UNCHANGED <<text, result, err>>
  /\ UNCHANGED hvars

\* One iteration of the loop on a segment the pattern matches.
Iterate ==
  /\ pc = "loop"
  /\ Len(diffs) < Len(segs)
  /\ LET diff == segs[Len(diffs) + 1]
         header == diff_header(diff)
     IN  /\ header.matched
         /\ diffs' = Append(diffs, MakeDiff(diff, header))
  /\ UNCHANGED <<text, segs, pc, result, err>>
  /\ UNCHANGED hvars

\* RaiseNoMatch as `if header is None: continue`: the segment is dropped.
RaiseNoMatch_Skip ==
  /\ pc = "loop"
  /\ Len(diffs) < Len(segs)
  /\ ~diff_header(segs[Len(diffs) + 1]).matched
  /\ segs' = SubSeq(segs, 1, Len(diffs)) \o SubSeq(segs, Len(diffs) + 2, Len(segs))
  /\ UNCHANGED <<text, diffs, pc, result, err>>
  /\ UNCHANGED hvars

\* One iteration on a segment the pattern does not match: header is None
\* and header.groups() raises AttributeError out of list_from_string.
RaiseNoMatch ==
  /\ pc = "loop"
  /\ Len(diffs) < Len(segs)
  /\ ~diff_header(segs[Len(diffs) + 1]).matched
  /\ pc' = "raised"
  /\ err' = "AttributeError"
  /\ UNCHANGED <<text, segs, diffs, result>>
  /\ UNCHANGED hvars

\* The loop is exhausted and the list is handed to the caller.
ReturnDiffs ==
  /\ pc = "loop"
  /\ Len(diffs) = Len(segs)
  /\ pc' = "returned"
  /\ result' = Some(diffs)
  /\ UNCHANGED <<text, segs, diffs, err>>
  /\ UNCHANGED hvars

DiffNext ==
  \/ SplitText
  \/ Iterate
  \/ RaiseNoMatch
  \/ ReturnDiffs

(***************************************************************************)
(* The test decorators of git/test/lib/helper.py, run one test after the   *)
(* other by a test runner. fs is the set of directories on disk; a         *)
(* directory name is a positive number and 0 stands for Python's None.     *)
(* pending is the exception in flight ("none": no exception), and after a  *)
(* wrapper has finished it is what reached the wrapper's caller.           *)
(***************************************************************************)
\* What a wrapped test function does: it returns, or it raises.
Outcomes == {"return", "AssertionError", "SkipTest", "KeyboardInterrupt"}

\* The outcomes `except Exception` catches: KeyboardInterrupt derives from
\* BaseException only.
IsException(o) == o \in {"AssertionError", "SkipTest", "GitCommandError",
                        "GitCommandNotFound", "UnboundLocalError"}

\* What launch_git_daemon raises when the daemon cannot be started.
LaunchErrors == {"GitCommandNotFound", "GitCommandError"}

\* tempfile.mktemp: the n-th name of the current run, not on disk yet.
Mktemp(n) == 2 * nruns + n

\* The test runner before its first test; no parse is under way.
HelperInit ==
  /\ hpc = "idle"
  /\ fs = {}
  /\ nruns = 0
  /\ path = 0
  /\ keep = FALSE
  /\ outcome = "none"
  /\ pending = "none"
  /\ finished = "none"
  /\ repo_dir = 0
  /\ remote_repo_dir = 0
  /\ gd = "unbound"
  /\ daemon = "none"
  /\ cwd = "prev_cwd"
  /\ launch_raised = FALSE
  /\ func_called = FALSE
  /\ cleanup_done = FALSE
  /\ text = ""
  /\ segs = <<>>
  /\ diffs = <<>>
  /\ pc = "start"
  /\ result = None
  /\ err = "none"

rrvars == <<repo_dir, remote_repo_dir, gd, daemon, cwd, launch_raised,
            func_called, cleanup_done>>

\* with_rw_directory, wrapper: path = mktemp(); os.mkdir(path); keep = False
RwDirEnter ==
  /\ hpc = "idle"
  /\ nruns < MaxRuns
  /\ nruns' = nruns + 1
  /\ path' = Mktemp(1)
  /\ fs' = fs \cup {Mktemp(1)}
  /\ keep' = FALSE
  /\ outcome' = "none"
  /\ pending' = "none"
  /\ finished' = "none"
  /\ hpc' = "rw_try"
  /\ UNCHANGED rrvars
  /\ UNCHANGED dvars

\* return func(self, path): the test returns, or raises into the handlers.
RwDirFunc ==
  /\ hpc = "rw_try"
  /\ \E o \in Outcomes :
       /\ outcome' = o
       /\ pending' = IF o = "return" THEN "none" ELSE o
       /\ hpc' = IF o # "return" /\ IsException(o) THEN "rw_except"
                 ELSE "rw_finally"
  /\ UNCHANGED <<fs, nruns, path, keep, finished>>
  /\ UNCHANGED rrvars
  /\ UNCHANGED dvars

\* except Exception: log.info(...); keep = True; raise
RwDirExcept ==
  /\ hpc = "rw_except"
  /\ keep' = TRUE
  /\ hpc' = "rw_finally"
  /\ UNCHANGED <<fs, nruns, path, outcome, pending, finished>>
  /\ UNCHANGED rrvars
  /\ UNCHANGED dvars

\* finally: gc.collect(); if not keep: rmtree(path)
RwDirFinally ==
  /\ hpc = "rw_finally"
  /\ fs' = IF ~keep THEN fs \ {path} ELSE fs
  /\ finished' = "with_rw_directory"
  /\ hpc' = "idle"
  /\ UNCHANGED <<nruns, path, keep, outcome, pending>>
  /\ UNCHANGED rrvars
  /\ UNCHANGED dvars

\* remote_repo_creator up to the try: the two clones and their configuration.
RrSetup ==
  /\ hpc = "idle"
  /\ nruns < MaxRuns
  /\ nruns' = nruns + 1
  /\ remote_repo_dir' = Mktemp(1)
  /\ repo_dir' = Mktemp(2)
  /\ fs' = fs \cup {Mktemp(1), Mktemp(2)}
  /\ gd' = "unbound"
  /\ daemon' = "none"
  /\ cwd' = "prev_cwd"
  /\ launch_raised' = FALSE
  /\ func_called' = FALSE
  /\ cleanup_done' = FALSE
  /\ outcome' = "none"
  /\ pending' = "none"
  /\ finished' = "none"
  /\ hpc' = "rr_try"
  /\ UNCHANGED <<path, keep>>
  /\ UNCHANGED dvars

\* try: gd = launch_git_daemon(...): the daemon starts and gd is bound, or
\* the call raises and gd stays unbound.
RrLaunch ==
  /\ hpc = "rr_try"
  /\ \/ /\ gd' = "proc"
        /\ daemon' = "running"
        /\ hpc' = "rr_else"
        /\ UNCHANGED <<pending, launch_raised>>
     \/ /\ \E ex \in LaunchErrors : pending' = ex
        /\ launch_raised' = TRUE
        /\ hpc' = "rr_except"
        /\ UNCHANGED <<gd, daemon>>
  /\ UNCHANGED <<fs, nruns, path, keep, outcome, finished, repo_dir,
                 remote_repo_dir, cwd, func_called, cleanup_done>>
  /\ UNCHANGED dvars

\* except Exception as ex: ...; raise AssertionError(ex, msg)
RrExcept ==
  /\ hpc = "rr_except"
  /\ pending' = "AssertionError"
  /\ hpc' = "rr_finally_kill"
  /\ UNCHANGED <<fs, nruns, path, keep, outcome, finished>>
  /\ UNCHANGED rrvars
  /\ UNCHANGED dvars

\* else: rw_repo.git.ls_remote(d_remote) raises when the daemon is not up;
\* otherwise os.chdir(rw_repo.working_dir) and the test is called.
RrElse ==
  /\ hpc = "rr_else"
  /\ \/ /\ pending' = "GitCommandError"
        /\ hpc' = "rr_finally_kill"
        /\ UNCHANGED <<outcome, cwd, func_called>>
     \/ /\ cwd' = "rw_repo"
        /\ func_called' = TRUE
        /\ \E o \in Outcomes :
             /\ outcome' = o
             /\ pending' = IF o = "return" THEN "none" ELSE o
             /\ hpc' = IF o = "return" THEN "rr_inner_finally"
                       ELSE "rr_func_except"
  /\ UNCHANGED <<fs, nruns, path, keep, finished, repo_dir, remote_repo_dir,
                 gd, daemon, launch_raised, cleanup_done>>
  /\ UNCHANGED dvars

\* except: log.info(...); repo_dir = remote_repo_dir = None; raise
RrFuncExcept ==
  /\ hpc = "rr_func_except"
  /\ repo_dir' = 0
  /\ remote_repo_dir' = 0
  /\ hpc' = "rr_inner_finally"
  /\ UNCHANGED <<fs, nruns, path, keep, outcome, pending, finished, gd,
                 daemon, cwd, launch_raised, func_called, cleanup_done>>
  /\ UNCHANGED dvars

\* finally: os.chdir(prev_cwd)
RrInnerFinally ==
  /\ hpc = "rr_inner_finally"
  /\ cwd' = "prev_cwd"
  /\ hpc' = "rr_finally_kill"
  /\ UNCHANGED <<fs, nruns, path, keep, outcome, pending, finished, repo_dir,
                 remote_repo_dir, gd, daemon, launch_raised, func_called,
                 cleanup_done>>
  /\ UNCHANGED dvars

\* finally: try: gd.proc.kill() except: pass. Reading the unbound gd raises
\* UnboundLocalError, which the bare except swallows.
RrFinallyKill ==
  /\ hpc = "rr_finally_kill"
  /\ daemon' = IF gd = "unbound" THEN daemon ELSE "killed"
  /\ hpc' = "rr_finally_clean"
  /\ UNCHANGED <<fs, nruns, path, keep, outcome, pending, finished, repo_dir,
                 remote_repo_dir, gd, cwd, launch_raised, func_called,
                 cleanup_done>>
  /\ UNCHANGED dvars

\* clear_cache(); gc.collect(); if repo_dir: rmtree(repo_dir);
\* if remote_repo_dir: rmtree(remote_repo_dir)
RrFinallyClean ==
  /\ hpc = "rr_finally_clean"
  /\ fs' = (fs \ (IF repo_dir # 0 THEN {repo_dir} ELSE {}))
              \ (IF remote_repo_dir # 0 THEN {remote_repo_dir} ELSE {})
  /\ hpc' = "rr_finally_wait"
  /\ UNCHANGED <<nruns, path, keep, outcome, pending, finished>>
  /\ UNCHANGED rrvars
  /\ UNCHANGED dvars

\* if gd is not None: gd.proc.wait(). Reading the unbound gd raises
\* UnboundLocalError out of the finally block, in place of the exception in
\* flight; otherwise the block ends and that exception (or the return) goes on.
RrFinallyWait ==
  /\ hpc = "rr_finally_wait"
  /\ \/ /\ gd = "unbound"
        /\ pending' = "UnboundLocalError"
        /\ UNCHANGED <<daemon, cleanup_done>>
     \/ /\ gd # "unbound"
        /\ daemon' = "reaped"
        /\ cleanup_done' = TRUE
        /\ UNCHANGED pending
  /\ finished' = "remote_repo_creator"
  /\ hpc' = "idle"
  /\ UNCHANGED <<fs, nruns, path, keep, outcome, repo_dir, remote_repo_dir,
                 gd, cwd, launch_raised, func_called>>
  /\ UNCHANGED dvars

HelperNext ==
  \/ RwDirEnter
  \/ RwDirFunc
  \/ RwDirExcept
  \/ RwDirFinally
  \/ RrSetup
  \/ RrLaunch
  \/ RrExcept
  \/ RrElse
  \/ RrFuncExcept
  \/ RrInnerFinally
  \/ RrFinallyKill
  \/ RrFinallyClean
  \/ RrFinallyWait

DiffSpec == DiffInit /\ [][DiffNext]_vars

HelperSpec == HelperInit /\ [][HelperNext]_vars

(***************************************************************************)
(* The text seen from outside the parser, for the properties below: the    *)
(* delimiter's occurrences in the newline-prefixed text and the segments   *)
(* between them, read off the text without splitting it.                   *)
(***************************************************************************)
Prefixed(t) == "\n" \o t

DelimiterAt(t) == {p \in 1..Len(Prefixed(t)) : Lit(Prefixed(t), p, Delimiter)}

NumSegments(t) == Cardinality(DelimiterAt(t))

NthDelimiter(t, i) ==
  CHOOSE p \in DelimiterAt(t) : Cardinality({q \in DelimiterAt(t) : q < p}) = i - 1

SegmentOf(t, i) ==
  LET from == NthDelimiter(t, i) + Len(Delimiter)
      upto == IF i < NumSegments(t) THEN NthDelimiter(t, i + 1) - 1
              ELSE Len(Prefixed(t))
  IN  SubSeq(Prefixed(t), from, upto)

\* The first line of a segment is ' a/<path> b/<path>' and ends in a newline:
\* it starts with " a/", and its only other whitespace is the one space
\* before "b/", with a path on both sides.
PathLineOk(seg) ==
  LET eol == Find(seg, "\n", 1)
      line == SubSeq(seg, 1, eol - 1)
      blanks == {q \in 2..Len(line) : At(line, q) \in Whitespace}
  IN  /\ eol # 0
      /\ Lit(line, 1, " a/")
      /\ \E q \in 5..(Len(line) - 3) :
           /\ blanks = {q}
           /\ Lit(line, q, " b/")

AllPathLinesOk(t) == \A i \in 1..NumSegments(t) : PathLineOk(SegmentOf(t, i))

\* The call has ended, by a return or by an exception.
Ended == pc \in {"returned", "raised"}

\* The matched header region of the i-th record: its segment without the
\* raw body.
HeaderRegion(i) == SubSeq(segs[i], 1, Len(segs[i]) - Len(diffs[i].diff))

\* The keyword stands at the start of a line of s.
HasLine(s, keyword) == Find(s, "\n" \o keyword, 1) # 0

LinePos(s, keyword) == Find(s, "\n" \o keyword, 1)

NewThenDeleted(seg) ==
  \E p \in 1..Len(seg) :
    /\ Lit(seg, p, "\nnew file mode ")
    /\ LET eol == Find(seg, "\n", p + 1)
       IN  eol # 0 /\ Lit(seg, eol, "\ndeleted file mode ")

C2_OneRecordPerSegment ==
  Ended /\ AllPathLinesOk(text) =>
    /\ pc = "returned"
    /\ result # None
    /\ Len(result[1]) = NumSegments(text)
    /\ \A i \in 1..NumSegments(text) :
         result[1][i] = MakeDiff(SegmentOf(text, i),
                                 diff_header(SegmentOf(text, i)))
    /\ NumSegments(text) = 0 => result[1] = <<>>

\* Two records returned, of two different segments.
C2_Witness ==
  /\ pc = "returned"
  /\ Len(result[1]) = 2
  /\ NumSegments(text) = 2
  /\ result[1][1] # result[1][2]

(***************************************************************************)
(* C3.                                                                     *)
(***************************************************************************)
\* C3: when some segment does not start with the mandatory path line, the
\* call ends in an error and hands no records to the caller, also when
\* earlier segments were well-formed; a returned list skipped no segment.
C3_MalformedSegmentFails ==
  /\ Ended /\ ~AllPathLinesOk(text) =>
       /\ pc = "raised"
       /\ err = "AttributeError"
       /\ result = None
  /\ pc = "returned" => AllPathLinesOk(text) /\ Len(result[1]) = NumSegments(text)

\* The call failed on a malformed segment after a well-formed one.
C3_Witness ==
  /\ pc = "raised"
  /\ Len(diffs) >= 1
  /\ PathLineOk(SegmentOf(text, 1))
  /\ ~PathLineOk(SegmentOf(text, Len(diffs) + 1))

(***************************************************************************)
(* C4.                                                                     *)
(***************************************************************************)
\* The keyword lines of the optional clauses, in the order of the grammar.
ClauseOrder ==
  << "similarity index ", "rename from ", "rename to ", "old mode ",
     "new mode ", "new file mode ", "deleted file mode ", "index " >>

\* The fields a record keeps of clause k are empty.
ClauseEmpty(d, h, k) ==
  CASE k \in 1..3 -> d.rename_from = None /\ d.rename_to = None
                     /\ h.similarity_index = None
    [] k \in 4..5 -> h.old_mode = None /\ h.new_mode = None
    [] k = 6 -> ~d.new_file /\ h.new_file_mode = None
    [] k = 7 -> ~d.deleted_file /\ h.deleted_file_mode = None
    [] k = 8 -> d.a_commit = None /\ d.b_commit = None /\ h.b_mode = None

\* C4: a segment whose path line matches yields a record and no error,
\* whatever follows the path line; a clause's fields are empty unless its
\* keyword line stands in the matched header, and the clauses captured stand
\* there in the order of the grammar (a line out of order is not captured).
C4_OptionalClausesNeverFail ==
  /\ Ended /\ AllPathLinesOk(text) => pc = "returned"
  /\ pc = "raised" => ~PathLineOk(SegmentOf(text, Len(diffs) + 1))
  /\ \A i \in 1..Len(diffs) :
       LET h == diff_header(segs[i])
           region == HeaderRegion(i)
       IN  /\ PathLineOk(SegmentOf(text, i))
           /\ \A k \in 1..8 :
                ~HasLine(region, ClauseOrder[k]) => ClauseEmpty(diffs[i], h, k)
           /\ \A k \in 1..8 : \A l \in (k + 1)..8 :
                HasLine(region, ClauseOrder[k]) /\ HasLine(region, ClauseOrder[l])
                  => LinePos(region, ClauseOrder[k]) < LinePos(region, ClauseOrder[l])

\* A record of a segment with a clause out of order, an index line before a
\* new-file line: the index line is captured and the new-file line is not.
C4_Witness ==
  /\ pc = "returned"
  /\ Len(diffs) = 1
  /\ HasLine(segs[1], "index ")
  /\ HasLine(segs[1], "new file mode ")
  /\ LinePos(segs[1], "index ") < LinePos(segs[1], "new file mode ")
  /\ diffs[1].a_commit # None
  /\ ~diffs[1].new_file

(***************************************************************************)
(* C5.                                                                     *)
(***************************************************************************)
\* C5: no raw body has a line that starts with the delimiter token
\* 'diff --git', neither its first line nor a line after a newline.
C5_NoDelimiterLineInBody ==
  \A i \in 1..Len(diffs) :
    /\ ~Lit(diffs[i].diff, 1, "diff --git")
    /\ Find(diffs[i].diff, "\ndiff --git", 1) = 0

\* Two records, the first with a raw body that holds the token inside a line.
C5_Witness ==
  /\ Len(diffs) = 2
  /\ Find(diffs[1].diff, "diff --git", 1) # 0

(***************************************************************************)
(* C6.                                                                     *)
(***************************************************************************)
\* The value captured on the line of the header region that starts with the
\* keyword (to the end of the line), None when there is no such line.
LineValue(region, keyword) ==
  LET p == LinePos(region, keyword)
      v0 == p + 1 + Len(keyword)
      eol == Find(region, "\n", v0)
  IN  IF p = 0 THEN None
      ELSE Some(SubSeq(region, v0, IF eol = 0 THEN Len(region) ELSE eol - 1))

\* The mode trailing the index line 'index <old>..<new> <mode>': what follows
\* the new id and the one space after it, None when nothing does.
IndexMode(region) ==
  LET v == LineValue(region, "index ")
      new_id == Find(v[1], "..", 1) + 2
      stop == Span(v[1], new_id, "x")
      m0 == IF Lit(v[1], stop, " ") THEN stop + 1 ELSE stop
  IN  IF v = None THEN None
      ELSE IF m0 > Len(v[1]) THEN None
      ELSE Some(SubSeq(v[1], m0, Len(v[1])))

\* C6: the record's old mode is the 'old mode' value if that clause matched,
\* else the 'deleted file mode' value; its new mode is the 'new mode' value
\* if matched, else the 'new file mode' value if matched, else the mode
\* trailing the index line.
C6_ModePrecedence ==
  \A i \in 1..Len(diffs) :
    LET region == HeaderRegion(i)
        old_mode == LineValue(region, "old mode ")
        new_mode == LineValue(region, "new mode ")
        new_file_mode == LineValue(region, "new file mode ")
        deleted_file_mode == LineValue(region, "deleted file mode ")
    IN  /\ diffs[i].a_mode = IF old_mode # None THEN old_mode
                             ELSE deleted_file_mode
        /\ diffs[i].b_mode = IF new_mode # None THEN new_mode
                             ELSE IF new_file_mode # None THEN new_file_mode
                             ELSE IndexMode(region)

\* A segment with only an index line and no mode lines: the new mode is the
\* mode trailing the index line.
C6_Witness ==
  /\ pc = "returned"
  /\ text = "diff --git a/x b/x\nindex a1b2c3..d4e5f6 100644\n"
  /\ diffs[1].b_mode = Some("100644")
  /\ diffs[1].a_mode = None

(***************************************************************************)
(* C7.                                                                     *)
(***************************************************************************)
\* C7: is_renamed equals (rename_from != rename_to): false when no rename
\* clause matched and when the clause names one path twice, true when the
\* paths of the matched clause differ.
C7_RenamedIffPathsDiffer ==
  \A i \in 1..Len(diffs) :
    LET region == HeaderRegion(i)
        from == LineValue(region, "rename from ")
        to == LineValue(region, "rename to ")
    IN  /\ diffs[i].rename_from = from
        /\ diffs[i].rename_to = to
        /\ diffs[i].renamed = (from # to)
        /\ from = None => ~diffs[i].renamed

\* A record whose rename clause names the same path twice.
C7_Witness ==
  \E i \in 1..Len(diffs) :
    /\ diffs[i].rename_from = Some("x")
    /\ diffs[i].rename_to = Some("x")
    /\ ~diffs[i].renamed

(***************************************************************************)
(* C8.                                                                     *)
(***************************************************************************)
\* C8: the matched header text followed by raw_body is the record's own
\* segment, character for character.
C8_HeaderPlusBodyIsSegment ==
  \A i \in 1..Len(diffs) :
    LET seg == SegmentOf(text, i)
        end == diff_header(seg).end
    IN  /\ end <= Len(seg)
        /\ SubSeq(seg, 1, end) \o diffs[i].diff = seg
        /\ Len(diffs[i].diff) = Len(seg) - end

\* Two records, the first with a hunk line as its raw body (its newline is
\* part of the next delimiter), the second with none.
C8_Witness ==
  /\ pc = "returned"
  /\ Len(diffs) = 2
  /\ diffs[1].diff = "@@ -1 +1 @@"
  /\ diffs[2].diff = ""

(***************************************************************************)
(* C9.                                                                     *)
(***************************************************************************)
\* C9 as stated: when with_rw_directory's wrapper has finished, its temporary
\* directory is gone if the test succeeded and is still on disk if it did
\* not, and the caller gets the test's own return or exception.
C9_DirKeptUnlessSuccess ==
  finished = "with_rw_directory" =>
    /\ (outcome = "return") = (path \notin fs)
    /\ pending = IF outcome = "return" THEN "none" ELSE outcome

(***************************************************************************)
(* C10.                                                                    *)
(***************************************************************************)
\* C10 as stated: when launch_git_daemon raised, the cleanup block ran to its
\* end, the caller gets the AssertionError, and the test was never called.
C10_LaunchFailureReported ==
  finished = "remote_repo_creator" /\ launch_raised =>
    /\ cleanup_done
    /\ pending = "AssertionError"
    /\ ~func_called

====
